---- MODULE Spec2Model ----
(***************************************************************************)
(* Theme resolution of src/main.rs: Platform::detect, Theme::new and the   *)
(* per-platform *_system probes, the *_with_preferences palette builders   *)
(* and Theme::darken_color.                                                *)
(*                                                                         *)
(* Three specifications share the variables:                              *)
(*   Spec        Platform::detect / Theme::new: probe, then build          *)
(*   SpecBuild   direct calls of the *_with_preferences builders           *)
(*   SpecDarken  direct calls of Theme::darken_color                       *)
(***************************************************************************)
EXTENDS Integers, Sequences, FiniteSets

VARIABLES pc, target_os, platform, query, is_dark, accent_color, theme,
          other_dark, other_accent, other_theme,
          color, factor, factor2, result, result2

vars == <<pc, target_os, platform, query, is_dark, accent_color, theme,
          other_dark, other_accent, other_theme,
          color, factor, factor2, result, result2>>

(***************************************************************************)
(* Bounds of the model.                                                    *)
(***************************************************************************)
\* number of generated colours added to the fixed sample colours
NumSamples == 3
\* dyadic factors k / 2^FactorBits, k in 0 .. 2^FactorBits, given to darken_color
FactorBits == 2

(***************************************************************************)
(* u32 arithmetic.  Every value stays below 2^31: the colours are 24-bit,  *)
(* the DWM colorization samples have an alpha byte below 0x80.             *)
(***************************************************************************)
RECURSIVE BitAnd(_, _)
BitAnd(a, b) ==
    IF a = 0 \/ b = 0 THEN 0
    ELSE (a % 2) * (b % 2) + 2 * BitAnd(a \div 2, b \div 2)

RECURSIVE BitOr(_, _)
BitOr(a, b) ==
    IF a = 0 THEN b
    ELSE IF b = 0 THEN a
    ELSE (IF a % 2 = 1 \/ b % 2 = 1 THEN 1 ELSE 0) + 2 * BitOr(a \div 2, b \div 2)

Shr(x, n) == x \div (2 ^ n)

Shl(x, n) == x * (2 ^ n)

(***************************************************************************)
(* Option<u32>: None is the empty sequence, Some(c) the sequence <<c>>.    *)
(***************************************************************************)
None == << >>

Some(c) == <<c>>

unwrap_or(opt, default) == IF opt = None THEN default ELSE opt[1]

(***************************************************************************)
(* f32.  A non-negative f32 is the record [m, e] standing for m / 2^e.     *)
(* A product is rounded to a 24-bit significand, ties to even, as the      *)
(* hardware multiplication does; `as u32` truncates toward zero.           *)
(***************************************************************************)
RECURSIVE BitLen(_)
BitLen(n) == IF n = 0 THEN 0 ELSE 1 + BitLen(n \div 2)

RoundF32(p, e) ==
    LET k == BitLen(p) - 24
    IN  IF k <= 0 THEN [m |-> p, e |-> e]
        ELSE LET q    == p \div (2 ^ k)
                 rem  == p % (2 ^ k)
                 half == 2 ^ (k - 1)
                 up   == rem > half \/ (rem = half /\ q % 2 = 1)
             IN  [m |-> (IF up THEN q + 1 ELSE q) * (2 ^ k), e |-> e]

\* (channel as f32) * factor
MulF32(channel, f) == RoundF32(channel * f.m, f.e)

\* x as u32, x >= 0
AsU32(x) == x.m \div (2 ^ x.e)

\* the literal 0.9 as an f32: 0x3F666666 = 15099494 / 2^24 = 7549747 / 2^23
F32_0_9 == [m |-> 7549747, e |-> 23]

\* the literal 1.0 as an f32
F32_1_0 == [m |-> 1, e |-> 0]

(***************************************************************************)
(* Theme::darken_color                                                     *)
(***************************************************************************)
\* the mutants: the channels recombined in the wrong order; the factor taken
\* as the amount to remove
darken_color_swapped(c, f) ==
    LET r == BitAnd(Shr(c, 16), 255)
        g == BitAnd(Shr(c, 8), 255)
        b == BitAnd(c, 255)
        r_dark == AsU32(MulF32(r, f))
        g_dark == AsU32(MulF32(g, f))
        b_dark == AsU32(MulF32(b, f))
    IN  BitOr(BitOr(Shl(b_dark, 16), Shl(g_dark, 8)), r_dark)

darken_color_amount(c, f) ==
    LET r == BitAnd(Shr(c, 16), 255)
        g == BitAnd(Shr(c, 8), 255)
        b == BitAnd(c, 255)
        r_dark == r - AsU32(MulF32(r, f))
        g_dark == g - AsU32(MulF32(g, f))
        b_dark == b - AsU32(MulF32(b, f))
    IN  BitOr(BitOr(Shl(r_dark, 16), Shl(g_dark, 8)), b_dark)

darken_color(c, f) ==
    LET r == BitAnd(Shr(c, 16), 255)
        g == BitAnd(Shr(c, 8), 255)
        b == BitAnd(c, 255)
        r_dark == AsU32(MulF32(r, f))
        g_dark == AsU32(MulF32(g, f))
        b_dark == AsU32(MulF32(b, f))
    IN  BitOr(BitOr(Shl(r_dark, 16), Shl(g_dark, 8)), b_dark)

(***************************************************************************)
(* gpui's rgb(hex): the three low bytes of hex as the red, green and blue  *)
(* channels (the top byte is dropped, alpha is 1.0).  The conversion of    *)
(* the channels to Hsla is the rendering library's and is not modelled: a  *)
(* Theme field is the channel triple.                                      *)
(***************************************************************************)
rgb(hex) == <<Shr(hex, 16) % 256, Shr(hex, 8) % 256, hex % 256>>

ThemeFields ==
    {"titlebar_bg", "titlebar_border", "titlebar_height",
     "close_button_bg", "close_button_corner",
     "minimize_button_bg", "minimize_button_corner",
     "maximize_button_bg", "maximize_button_corner",
     "background",
     "input_bg", "input_border", "input_border_focused", "input_text",
     "button_primary_bg", "button_primary_bg_hover", "button_primary_text",
     "button_secondary_bg", "button_secondary_bg_hover",
     "button_secondary_text", "button_secondary_border",
     "text_primary", "text_secondary", "text_error"}

\* no Theme: nothing built yet, or a builder the source does not define
NoTheme == [absent |-> TRUE]

(***************************************************************************)
(* Theme::macos_with_preferences                                           *)
(***************************************************************************)
macos_dark(accent, accent_hover) ==
    [titlebar_bg |-> rgb(\H202020),
     titlebar_border |-> rgb(\H1E1E1E),
     titlebar_height |-> 22,
     close_button_bg |-> rgb(\HFF5F57),
     close_button_corner |-> rgb(\HE04943),
     minimize_button_bg |-> rgb(\HFF8D2E),
     minimize_button_corner |-> rgb(\HDEA123),
     maximize_button_bg |-> rgb(\H28C940),
     maximize_button_corner |-> rgb(\H1AAB29),
     background |-> rgb(\H1E1E1E),
     input_bg |-> rgb(\H2D2D2D),
     input_border |-> rgb(\H404040),
     input_border_focused |-> rgb(accent),
     input_text |-> rgb(\HFFFFFF),
     button_primary_bg |-> rgb(accent),
     button_primary_bg_hover |-> rgb(accent_hover),
     button_primary_text |-> rgb(\HFFFFFF),
     button_secondary_bg |-> rgb(\H2D2D2D),
     button_secondary_bg_hover |-> rgb(\H383838),
     button_secondary_text |-> rgb(\HFFFFFF),
     button_secondary_border |-> rgb(\H505050),
     text_primary |-> rgb(\HFFFFFF),
     text_secondary |-> rgb(\HA0A0A0),
     text_error |-> rgb(\HFF6B6B)]

macos_light(accent, accent_hover) ==
    [titlebar_bg |-> rgb(\HE8E8E8),
     titlebar_border |-> rgb(\HD0D0D0),
     titlebar_height |-> 22,
     close_button_bg |-> rgb(\HFF5F57),
     close_button_corner |-> rgb(\HE04943),
     minimize_button_bg |-> rgb(\HFF8D2E),
     minimize_button_corner |-> rgb(\HDEA123),
     maximize_button_bg |-> rgb(\H28C940),
     maximize_button_corner |-> rgb(\H1AAB29),
     background |-> rgb(\HEFEFEF),
     input_bg |-> rgb(\HFFFFFF),
     input_border |-> rgb(\HCCCCCC),
     input_border_focused |-> rgb(accent),
     input_text |-> rgb(\H000000),
     button_primary_bg |-> rgb(accent),
     button_primary_bg_hover |-> rgb(accent_hover),
     button_primary_text |-> rgb(\HFFFFFF),
     button_secondary_bg |-> rgb(\HFFFFFF),
     button_secondary_bg_hover |-> rgb(\HF8F8F8),
     button_secondary_text |-> rgb(\H000000),
     button_secondary_border |-> rgb(\HB8B8B8),
     text_primary |-> rgb(\H000000),
     text_secondary |-> rgb(\H666666),
     text_error |-> rgb(\HCC0000)]

\* the mutant: the dark table's close button takes the accent
macos_with_preferences_accent_close(dark, accent_opt) ==
    LET accent == unwrap_or(accent_opt, \H007AFF)
        accent_hover == darken_color(accent, F32_0_9)
    IN  IF dark
        THEN [macos_dark(accent, accent_hover) EXCEPT !.close_button_bg = rgb(accent)]
        ELSE macos_light(accent, accent_hover)

macos_with_preferences(dark, accent_opt) ==
    LET accent == unwrap_or(accent_opt, \H007AFF)
        accent_hover == darken_color(accent, F32_0_9)
    IN  IF dark
        THEN macos_dark(accent, accent_hover)
        ELSE macos_light(accent, accent_hover)

(***************************************************************************)
(* Theme::windows_with_preferences                                         *)
(***************************************************************************)
windows_dark(accent, accent_hover) ==
    [titlebar_bg |-> rgb(\H202020),
     titlebar_border |-> rgb(\H1A1A1A),
     titlebar_height |-> 32,
     close_button_bg |-> rgb(\HE81123),
     close_button_corner |-> rgb(\HC50F1F),
     minimize_button_bg |-> rgb(\H202020),
     minimize_button_corner |-> rgb(\H1A1A1A),
     maximize_button_bg |-> rgb(\H202020),
     maximize_button_corner |-> rgb(\H1A1A1A),
     background |-> rgb(\H1E1E1E),
     input_bg |-> rgb(\H2D2D2D),
     input_border |-> rgb(\H404040),
     input_border_focused |-> rgb(accent),
     input_text |-> rgb(\HFFFFFF),
     button_primary_bg |-> rgb(accent),
     button_primary_bg_hover |-> rgb(accent_hover),
     button_primary_text |-> rgb(\HFFFFFF),
     button_secondary_bg |-> rgb(\H2D2D2D),
     button_secondary_bg_hover |-> rgb(\H383838),
     button_secondary_text |-> rgb(\HFFFFFF),
     button_secondary_border |-> rgb(\H505050),
     text_primary |-> rgb(\HFFFFFF),
     text_secondary |-> rgb(\HA0A0A0),
     text_error |-> rgb(\HFF6B6B)]

windows_light(accent, accent_hover) ==
    [titlebar_bg |-> rgb(\HF0F0F0),
     titlebar_border |-> rgb(\HDFDFDF),
     titlebar_height |-> 32,
     close_button_bg |-> rgb(\HE81123),
     close_button_corner |-> rgb(\HC50F1F),
     minimize_button_bg |-> rgb(\HF0F0F0),
     minimize_button_corner |-> rgb(\HDFDFDF),
     maximize_button_bg |-> rgb(\HF0F0F0),
     maximize_button_corner |-> rgb(\HDFDFDF),
     background |-> rgb(\HFFFFFF),
     input_bg |-> rgb(\HFFFFFF),
     input_border |-> rgb(\H8A8A8A),
     input_border_focused |-> rgb(accent),
     input_text |-> rgb(\H000000),
     button_primary_bg |-> rgb(accent),
     button_primary_bg_hover |-> rgb(accent_hover),
     button_primary_text |-> rgb(\HFFFFFF),
     button_secondary_bg |-> rgb(\HFFFFFF),
     button_secondary_bg_hover |-> rgb(\HF5F5F5),
     button_secondary_text |-> rgb(\H000000),
     button_secondary_border |-> rgb(\H8A8A8A),
     text_primary |-> rgb(\H000000),
     text_secondary |-> rgb(\H605E5C),
     text_error |-> rgb(\HA80000)]

windows_with_preferences(dark, accent_opt) ==
    LET accent == unwrap_or(accent_opt, \H0078D4)
        accent_hover == darken_color(accent, F32_0_9)
    IN  IF dark
        THEN windows_dark(accent, accent_hover)
        ELSE windows_light(accent, accent_hover)

(***************************************************************************)
(* Theme::linux_with_preferences: called by Theme::linux_system, defined   *)
(* nowhere in the source.  The call has no result.                         *)
(***************************************************************************)
linux_with_preferences(dark, accent_opt) == NoTheme

\* the builder each platform's *_system ends in
with_preferences(p, dark, accent_opt) ==
    CASE p = "MacOS"   -> macos_with_preferences(dark, accent_opt)
      [] p = "Windows" -> windows_with_preferences(dark, accent_opt)
      [] p = "Linux"   -> linux_with_preferences(dark, accent_opt)

(***************************************************************************)
(* Platform::detect: the build target decides the tag.                     *)
(***************************************************************************)
Targets == {"macos", "windows", "linux"}

Platforms == {"MacOS", "Windows", "Linux"}

detect(target) ==
    CASE target = "macos"   -> "MacOS"
      [] target = "windows" -> "Windows"
      [] target = "linux"   -> "Linux"

(***************************************************************************)
(* The inputs: colours, accents, DWM colorization values, factors.         *)
(***************************************************************************)
SampleColor(i) == (i * \H9E3779) % (2 ^ 24)

FixedColors ==
    {\H000000, \HFFFFFF, \H007AFF, \H0078D4, \H3584E4, \H3689E6, \H0A64FF}

SampleColors == FixedColors \cup {SampleColor(i) : i \in 1..NumSamples}

\* every channel value in every channel position
GreyColors == {v * \H010101 : v \in 0..255}

Colors == SampleColors \cup GreyColors

Accents == {None} \cup {Some(c) : c \in Colors}

SampleAccents == {None} \cup {Some(c) : c \in SampleColors}

\* ARGB values DwmGetColorizationColor writes
Colorizations == {a * (2 ^ 24) + c : a \in {0, \H59, \H7F}, c \in SampleColors}

Factors ==
    {[m |-> k, e |-> FactorBits] : k \in 0..(2 ^ FactorBits)}
    \cup {F32_0_9, F32_1_0,
          [m |-> 0, e |-> 0],
          [m |-> 5033165, e |-> 23],       \* 0.6f32
          [m |-> 5033165, e |-> 24],       \* 0.3f32
          [m |-> 7549747, e |-> 25],       \* 0.225f32
          [m |-> 8388607, e |-> 23]}       \* the f32 below 1.0 with a 23-bit significand

\* f1 < f2 as real numbers
FactorLess(f1, f2) ==
    LET e == IF f1.e > f2.e THEN f1.e ELSE f2.e
    IN  f1.m * (2 ^ (e - f1.e)) < f2.m * (2 ^ (e - f2.e))

(***************************************************************************)
(* Theme::get_macos_accent_color.  The components getRed:green:blue:alpha  *)
(* writes are fractions of 1, here in thousandths.                         *)
(***************************************************************************)
MacComponents ==
    {<<0, 0, 0>>, <<1000, 1000, 1000>>, <<0, 480, 1000>>, <<200, 600, 900>>}

get_macos_accent_color(color_null, rgb_null, comp) ==
    IF color_null THEN None
    ELSE IF rgb_null THEN None
    ELSE LET r_int == (comp[1] * 255) \div 1000
             g_int == (comp[2] * 255) \div 1000
             b_int == (comp[3] * 255) \div 1000
         IN  Some(BitOr(BitOr(Shl(r_int, 16), Shl(g_int, 8)), b_int))

(***************************************************************************)
(* Theme::windows_system: the accent from DwmGetColorizationColor.         *)
(***************************************************************************)
\* the mutant: the alpha byte is kept
dwm_accent_color_raw(ok, colorization) ==
    IF ok THEN Some(colorization) ELSE None

dwm_accent_color(ok, colorization) ==
    IF ok THEN Some(BitAnd(colorization, \H00FFFFFF)) ELSE None

(***************************************************************************)
(* Theme::get_gtk_accent_color and Theme::get_gtk_dark_mode.  A theme name *)
(* is a sequence of characters.                                            *)
(***************************************************************************)
Adwaita == <<"A", "d", "w", "a", "i", "t", "a">>

Elementary == <<"e", "l", "e", "m", "e", "n", "t", "a", "r", "y">>

ThemeNames ==
    {Adwaita,
     Adwaita \o <<"-", "d", "a", "r", "k">>,
     Elementary,
     <<"i", "o", ".">> \o Elementary,
     <<"Y", "a", "r", "u">>,
     << >>}

\* str::contains
Contains(s, sub) ==
    \E i \in 0..(Len(s) - Len(sub)) : SubSeq(s, i + 1, i + Len(sub)) = sub

get_gtk_accent_color(init_ok, settings, theme_name) ==
    IF ~init_ok THEN None
    ELSE IF ~settings THEN None
    ELSE IF theme_name = None THEN None
    ELSE IF Contains(theme_name[1], Adwaita) THEN Some(\H3584E4)
    ELSE IF Contains(theme_name[1], Elementary) THEN Some(\H3689E6)
    ELSE None

get_gtk_dark_mode(init_ok, settings, prefer_dark) ==
    IF ~init_ok THEN FALSE
    ELSE IF ~settings THEN FALSE
    ELSE unwrap_or(prefer_dark, FALSE)

(***************************************************************************)
(* The outcome of the native queries of one probe step.                    *)
(***************************************************************************)
Query(api, ok, settings, name, pref, raw) ==
    [api |-> api, ok |-> ok, settings |-> settings, name |-> name,
     pref |-> pref, raw |-> raw]

NoQuery == Query("none", FALSE, FALSE, None, None, 0)

(***************************************************************************)
(* Spec: Platform::detect, then Theme::new(platform).                      *)
(***************************************************************************)
Init ==
    /\ pc = "start"
    /\ target_os \in Targets
    /\ platform = "unset"
    /\ query = NoQuery
    /\ is_dark = FALSE
    /\ accent_color = None
    /\ theme = NoTheme
    /\ other_dark = FALSE
    /\ other_accent = None
    /\ other_theme = NoTheme
    /\ color = 0
    /\ factor = F32_1_0
    /\ factor2 = F32_1_0
    /\ result = 0
    /\ result2 = 0

Unused == <<other_dark, other_accent, other_theme, color, factor, factor2, result, result2>>

\* Platform::detect
Detect ==
    /\ pc = "start"
    /\ platform' = detect(target_os)
    /\ pc' = "new"
    /\ UNCHANGED <<target_os, query, is_dark, accent_color, theme, Unused>>

\* a caller hands Theme::new a Platform of its own choice
NewWithPlatform ==
    /\ pc = "start"
    /\ \E p \in Platforms : platform' = p
    /\ pc' = "new"
    /\ UNCHANGED <<target_os, query, is_dark, accent_color, theme, Unused>>

\* Theme::macos_system on macOS.  The source binds neither is_dark nor
\* accent_color before it reads them: is_dark is any flag, and accent_color
\* any result of get_macos_accent_color.
MacosSystem ==
    /\ pc = "new" /\ platform = "MacOS" /\ target_os = "macos"
    /\ \E d \in BOOLEAN, cn \in BOOLEAN, rn \in BOOLEAN, comp \in MacComponents :
          /\ is_dark' = d
          /\ accent_color' = get_macos_accent_color(cn, rn, comp)
          /\ query' = Query("cocoa", ~cn /\ ~rn, FALSE, None, None, 0)
    /\ pc' = "probed"
    /\ UNCHANGED <<target_os, platform, theme, Unused>>

\* Theme::macos_system elsewhere
MacosSystemFallback ==
    /\ pc = "new" /\ platform = "MacOS" /\ target_os # "macos"
    /\ is_dark' = FALSE
    /\ accent_color' = None
    /\ query' = Query("fallback", FALSE, FALSE, None, None, 0)
    /\ pc' = "probed"
    /\ UNCHANGED <<target_os, platform, theme, Unused>>

\* Theme::windows_system on Windows
WindowsSystem ==
    /\ pc = "new" /\ platform = "Windows" /\ target_os = "windows"
    /\ \E ok \in BOOLEAN, colorization \in Colorizations :
          /\ accent_color' = dwm_accent_color(ok, colorization)
          /\ query' = Query("dwm", ok, FALSE, None, None, colorization)
    /\ is_dark' = FALSE
    /\ pc' = "probed"
    /\ UNCHANGED <<target_os, platform, theme, Unused>>

\* Theme::windows_system elsewhere
WindowsSystemFallback ==
    /\ pc = "new" /\ platform = "Windows" /\ target_os # "windows"
    /\ is_dark' = FALSE
    /\ accent_color' = None
    /\ query' = Query("fallback", FALSE, FALSE, None, None, 0)
    /\ pc' = "probed"
    /\ UNCHANGED <<target_os, platform, theme, Unused>>

\* Theme::linux_system, first statement: get_gtk_accent_color
GtkAccentColor ==
    /\ pc = "new" /\ platform = "Linux" /\ target_os = "linux"
    /\ \E ok \in BOOLEAN, settings \in BOOLEAN,
          name \in {None} \cup {Some(n) : n \in ThemeNames} :
          /\ accent_color' = get_gtk_accent_color(ok, settings, name)
          /\ query' = Query("gtk_accent", ok, settings, name, None, 0)
    /\ pc' = "gtk_dark"
    /\ UNCHANGED <<target_os, platform, is_dark, theme, Unused>>

\* Theme::linux_system, second statement: get_gtk_dark_mode
GtkDarkMode ==
    /\ pc = "gtk_dark"
    /\ \E ok \in BOOLEAN, settings \in BOOLEAN,
          pref \in {None, Some(TRUE), Some(FALSE)} :
          /\ is_dark' = get_gtk_dark_mode(ok, settings, pref)
          /\ query' = Query("gtk_dark", ok, settings, None, pref, 0)
    /\ pc' = "probed"
    /\ UNCHANGED <<target_os, platform, accent_color, theme, Unused>>

\* Theme::linux_system elsewhere: the source defines none
LinuxSystemAbsent ==
    /\ pc = "new" /\ platform = "Linux" /\ target_os # "linux"
    /\ theme' = NoTheme
    /\ query' = Query("absent", FALSE, FALSE, None, None, 0)
    /\ pc' = "done"
    /\ UNCHANGED <<target_os, platform, is_dark, accent_color, Unused>>

\* the last expression of each *_system: the platform's builder
Build ==
    /\ pc = "probed"
    /\ theme' = with_preferences(platform, is_dark, accent_color)
    /\ pc' = "done"
    /\ UNCHANGED <<target_os, platform, query, is_dark, accent_color, Unused>>

Next ==
    \/ Detect
    \/ NewWithPlatform
    \/ MacosSystem
    \/ MacosSystemFallback
    \/ WindowsSystem
    \/ WindowsSystemFallback
    \/ GtkAccentColor
    \/ GtkDarkMode
    \/ LinuxSystemAbsent
    \/ Build

Spec == Init /\ [][Next]_vars

(***************************************************************************)
(* SpecBuild: two calls of one platform's builder, on chosen arguments.    *)
(***************************************************************************)
InitBuild ==
    /\ pc = "call"
    /\ target_os = "any"
    /\ platform \in Platforms
    /\ query = NoQuery
    /\ is_dark \in BOOLEAN
    /\ accent_color \in Accents
    /\ theme = NoTheme
    /\ other_dark \in BOOLEAN
    /\ other_accent \in SampleAccents
    /\ other_theme = NoTheme
    /\ color = 0
    /\ factor = F32_1_0
    /\ factor2 = F32_1_0
    /\ result = 0
    /\ result2 = 0

BuildCall ==
    /\ pc = "call"
    /\ theme' = with_preferences(platform, is_dark, accent_color)
    /\ other_theme' = with_preferences(platform, other_dark, other_accent)
    /\ pc' = "returned"
    /\ UNCHANGED <<target_os, platform, query, is_dark, accent_color,
                   other_dark, other_accent, color, factor, factor2, result, result2>>

NextBuild == BuildCall

SpecBuild == InitBuild /\ [][NextBuild]_vars

(***************************************************************************)
(* SpecDarken: darken_color on one colour and two factors.                 *)
(***************************************************************************)
InitDarken ==
    /\ pc = "call"
    /\ target_os = "any"
    /\ platform = "unset"
    /\ query = NoQuery
    /\ is_dark = FALSE
    /\ accent_color = None
    /\ theme = NoTheme
    /\ other_dark = FALSE
    /\ other_accent = None
    /\ other_theme = NoTheme
    /\ color \in Colors
    /\ factor \in Factors
    /\ factor2 \in Factors
    /\ result = 0
    /\ result2 = 0

DarkenCall ==
    /\ pc = "call"
    /\ result' = darken_color(color, factor)
    /\ result2' = darken_color(color, factor2)
    /\ pc' = "returned"
    /\ UNCHANGED <<target_os, platform, query, is_dark, accent_color, theme,
                   other_dark, other_accent, other_theme, color, factor, factor2>>

NextDarken == DarkenCall

SpecDarken == InitDarken /\ [][NextDarken]_vars

(***************************************************************************)
(* What the claims speak of.                                               *)
(***************************************************************************)
Byte == 0..255

\* a 24-bit colour as its red, green and blue channels
Triple(c) == <<c \div 65536, (c \div 256) % 256, c % 256>>

IsTheme(t) == DOMAIN t = ThemeFields

\* every field set to a concrete colour or metric
IsCompleteTheme(t) ==
    /\ IsTheme(t)
    /\ \A f \in ThemeFields \ {"titlebar_height"} : t[f] \in Byte \X Byte \X Byte
    /\ t.titlebar_height \in Nat \ {0}

AccentFields == {"input_border_focused", "button_primary_bg", "button_primary_bg_hover"}

WindowControlFields ==
    {"close_button_bg", "close_button_corner",
     "minimize_button_bg", "minimize_button_corner",
     "maximize_button_bg", "maximize_button_corner"}

\* a channel scaled by nine tenths and truncated toward zero
Scale09(ch) == (ch * 9) \div 10

Returned == pc = "returned"

\* the platforms whose builder the source defines
HasBuilder == platform \in {"MacOS", "Windows"}

(***************************************************************************)
(* C1  Accent propagation.                                                 *)
(***************************************************************************)
AccentPropagates ==
    /\ IsTheme(theme)
    /\ theme.input_border_focused = theme.button_primary_bg
    /\ accent_color # None => theme.button_primary_bg = Triple(accent_color[1])
    /\ accent_color = None /\ platform = "MacOS" =>
          theme.button_primary_bg = Triple(\H007AFF)
    /\ accent_color = None /\ platform = "Windows" =>
          theme.button_primary_bg = Triple(\H0078D4)
    /\ accent_color = None => theme.button_primary_bg # <<0, 0, 0>>

\* C1: on every platform (MacOS, Windows, Linux), for every dark_mode and every
\* accent, the built Theme has input_border_focused = button_primary_bg = the
\* resolved accent: c for Some(c), the platform's fallback (0x007AFF, 0x0078D4)
\* for None, and never black for None.
C1_AccentPropagation == Returned => AccentPropagates

\* the part of C1 that holds: the platforms whose builder the source defines
C1_OnDefinedBuilders == Returned /\ HasBuilder => AccentPropagates

(***************************************************************************)
(* C2  Hover derivation.                                                   *)
(***************************************************************************)
HoverDerived ==
    /\ IsTheme(theme)
    /\ LET a == theme.button_primary_bg
       IN  theme.button_primary_bg_hover = <<Scale09(a[1]), Scale09(a[2]), Scale09(a[3])>>

\* C2: on every platform, for every mode and accent, button_primary_bg_hover is
\* the resolved accent with each 8-bit channel scaled by 0.9 and truncated
\* toward zero (255 becomes 229), recombined as (r << 16) | (g << 8) | b.
C2_HoverDerivation == Returned => HoverDerived

\* the part of C2 that holds: the platforms whose builder the source defines
C2_OnDefinedBuilders == Returned /\ HasBuilder => HoverDerived /\ AccentPropagates

\* a build in which a channel of 255 becomes 229
C2_Channel255 ==
    /\ Returned /\ HasBuilder /\ accent_color = Some(\HFFFFFF)
    /\ theme.button_primary_bg_hover = <<229, 229, 229>>

(***************************************************************************)
(* C3  Totality of the palette builder.                                    *)
(***************************************************************************)
\* C3: for every platform tag, every dark_mode and every accent the builder
\* returns a Theme with every field set to a concrete value, the Linux branch
\* of Theme::new included.
C3_BuildTotal == Returned => IsCompleteTheme(theme)

\* the part of C3 that holds: the platforms whose builder the source defines
C3_OnDefinedBuilders == Returned /\ HasBuilder => IsCompleteTheme(theme)

(***************************************************************************)
(* C4  Probe degradation, and a resolve that cannot fail.                  *)
(***************************************************************************)
ProbeDegrades ==
    /\ query.api = "gtk_accent" /\ (~query.ok \/ ~query.settings \/ query.name = None)
          => accent_color = None
    /\ query.api = "gtk_dark" /\ (~query.ok \/ ~query.settings \/ query.pref = None)
          => is_dark = FALSE
    /\ query.api = "dwm" /\ ~query.ok => accent_color = None
    /\ query.api = "cocoa" /\ ~query.ok => accent_color = None
    /\ query.api = "fallback" => accent_color = None /\ is_dark = FALSE

\* some step of Theme::new can be taken: the disjunction of the guards of the
\* actions of Next
CanStep ==
    \/ pc = "start"
    \/ pc = "new" /\ platform \in Platforms /\ target_os \in Targets
    \/ pc = "gtk_dark"
    \/ pc = "probed"

\* the resolve of the specification: Theme::new on the detected platform
Resolving == pc = "start" \/ platform = detect(target_os)

\* C4: whatever native query fails, the probe returns no error and degrades the
\* field to its unknown value (dark_mode = false, accent_color = None), and
\* detect -> probe -> build ends with a complete Theme; no state of resolve is
\* an error or a stuck state.
C4_ResolveNeverFails ==
    Resolving =>
        /\ ProbeDegrades
        /\ pc = "done" => IsCompleteTheme(theme)
        /\ pc # "done" => CanStep

\* the part of C4 that holds: the probes degrade and never stop the resolve,
\* and the resolve ends with a complete Theme where the source defines a builder
C4_ProbesDegrade ==
    /\ ProbeDegrades
    /\ pc # "done" => CanStep
    /\ pc = "done" /\ HasBuilder => IsCompleteTheme(theme)

\* a resolve on Linux whose toolkit failed to initialise in both probes
C4_GtkUnavailable ==
    /\ Resolving /\ platform = "Linux" /\ pc = "probed"
    /\ query.api = "gtk_dark" /\ ~query.ok
    /\ is_dark = FALSE /\ accent_color = None

(***************************************************************************)
(* C5  darken_color is monotone in the factor.                             *)
(***************************************************************************)
\* C5: for every 24-bit colour c and factors 0 <= f1 < f2 <= 1, each channel of
\* darken(c, f1) is at most the same channel of darken(c, f2).
C5_DarkenMonotone ==
    Returned /\ FactorLess(factor, factor2) =>
        \A i \in 1..3 : Triple(result)[i] <= Triple(result2)[i]

C5_Witness ==
    /\ Returned
    /\ color = \HFFFFFF /\ factor = F32_0_9 /\ factor2 = F32_1_0
    /\ result = \HE5E5E5 /\ result2 = \HFFFFFF

(***************************************************************************)
(* C6  darken_color at factor 1.0.                                         *)
(***************************************************************************)
\* C6: darken(c, 1.0) = c for every colour c passed to darken.
C6_DarkenIdentity ==
    Returned /\ factor.m = 2 ^ factor.e => result = color

C6_Witness ==
    Returned /\ factor = F32_1_0 /\ color = \H007AFF /\ result = \H007AFF

(***************************************************************************)
(* C7  The mode changes the table.                                         *)
(***************************************************************************)
ModeChangesTable ==
    /\ IsTheme(theme) /\ IsTheme(other_theme)
    /\ theme.background # other_theme.background
    /\ theme.text_primary # other_theme.text_primary

TwoModes == Returned /\ is_dark # other_dark /\ accent_color = other_accent

\* C7: for each platform and any accent, the Theme built with dark_mode = true
\* and the one built with dark_mode = false differ in background and in
\* text_primary.
C7_ModeChangesTable == TwoModes => ModeChangesTable

\* the part of C7 that holds: the platforms whose builder the source defines
C7_OnDefinedBuilders == TwoModes /\ HasBuilder => ModeChangesTable

(***************************************************************************)
(* C8  Window-control colours.                                             *)
(***************************************************************************)
SameControls == \A f \in WindowControlFields : theme[f] = other_theme[f]

\* C8 as stated: on MacOS the six window-control fields are the same for every
\* dark_mode and accent; on Windows the close, minimize and maximize colours
\* depend on dark_mode; on neither platform do they depend on the accent.
C8_AsStated ==
    /\ Returned /\ platform = "MacOS" => SameControls
    /\ Returned /\ platform = "Windows" /\ is_dark = other_dark => SameControls
    /\ Returned /\ platform = "Windows" /\ is_dark # other_dark =>
          /\ theme.close_button_bg # other_theme.close_button_bg
          /\ theme.minimize_button_bg # other_theme.minimize_button_bg
          /\ theme.maximize_button_bg # other_theme.maximize_button_bg

\* C8 as amended: on MacOS the six window-control fields are the same for every
\* dark_mode and accent; on Windows the minimize and maximize colours (bg and
\* corner) depend on dark_mode and the close colours do not; on neither
\* platform do the window-control colours depend on the accent.
C8_WindowControls ==
    /\ Returned /\ platform = "MacOS" => SameControls
    /\ Returned /\ platform = "Windows" /\ is_dark = other_dark => SameControls
    /\ Returned /\ platform = "Windows" /\ is_dark # other_dark =>
          /\ theme.minimize_button_bg # other_theme.minimize_button_bg
          /\ theme.minimize_button_corner # other_theme.minimize_button_corner
          /\ theme.maximize_button_bg # other_theme.maximize_button_bg
          /\ theme.maximize_button_corner # other_theme.maximize_button_corner
          /\ theme.close_button_bg = other_theme.close_button_bg
          /\ theme.close_button_corner = other_theme.close_button_corner

C8_Witness ==
    /\ Returned /\ platform = "Windows"
    /\ is_dark /\ ~other_dark /\ accent_color # other_accent
    /\ theme.minimize_button_bg = Triple(\H202020)
    /\ other_theme.minimize_button_bg = Triple(\HF0F0F0)
    /\ theme.close_button_bg = Triple(\HE81123)
    /\ other_theme.close_button_bg = Triple(\HE81123)

(***************************************************************************)
(* C9  The accent changes the accent-driven fields only.                   *)
(***************************************************************************)
AccentFrame ==
    /\ IsTheme(theme) /\ IsTheme(other_theme)
    /\ \A f \in ThemeFields \ AccentFields : theme[f] = other_theme[f]
    /\ platform = "MacOS" => theme.titlebar_height = 22
    /\ platform = "Windows" => theme.titlebar_height = 32
    /\ platform = "MacOS" /\ is_dark => theme.background = Triple(\H1E1E1E)

TwoAccents == Returned /\ is_dark = other_dark /\ accent_color # other_accent

\* C9: for a fixed platform and dark_mode, two builds with different accents
\* give Themes equal in every field but input_border_focused, button_primary_bg
\* and button_primary_bg_hover; titlebar_height is 22 on MacOS and 32 on
\* Windows, and the MacOS dark background is 0x1E1E1E.
C9_AccentFrame == TwoAccents => AccentFrame

\* the part of C9 that holds: the platforms whose builder the source defines
C9_OnDefinedBuilders == TwoAccents /\ HasBuilder => AccentFrame

(***************************************************************************)
(* C10  The Windows probe.                                                 *)
(***************************************************************************)
\* C10: on the Windows path the probed dark_mode is false in every outcome and
\* the resolved Theme is the Windows light table; the probed accent is the
\* colorization value without its alpha byte (at most 0xFFFFFF) when the query
\* succeeds and None when it fails.
C10_WindowsProbe ==
    platform = "Windows" /\ pc \in {"probed", "done"} =>
        /\ is_dark = FALSE
        /\ query.api = "dwm" =>
              accent_color = (IF query.ok THEN Some(query.raw % (2 ^ 24)) ELSE None)
        /\ query.api = "fallback" => accent_color = None
        /\ accent_color # None => accent_color[1] <= \HFFFFFF
        /\ pc = "done" =>
              /\ IsTheme(theme)
              /\ \A f \in ThemeFields \ AccentFields : theme[f] = windows_light(0, 0)[f]
              /\ theme.background = Triple(\HFFFFFF)
              /\ theme.text_primary = Triple(\H000000)

C10_Witness ==
    /\ platform = "Windows" /\ pc = "done"
    /\ query.api = "dwm" /\ query.ok /\ query.raw = \H593584E4
    /\ accent_color = Some(\H3584E4)
    /\ theme.button_primary_bg = Triple(\H3584E4)
    /\ theme.background = Triple(\HFFFFFF)

====
